---- MODULE Spec2Model ----
(***************************************************************************)
(* restore_icons.py: create_geometric_icon(size) draws a square or a       *)
(* pseudo-isometric cube on a transparent RGBA canvas; generate_icons()    *)
(* renders the six extension icon sizes into icons/ and writes one SVG.    *)
(*                                                                         *)
(* Coordinates are integers: the only fractional operations of the source  *)
(* are int(size * k) and the float floor division cube_size // 2.5, whose  *)
(* results are integer valued. They are modelled by integer floor          *)
(* division, which gives the float results for every size the model        *)
(* reaches: int(size * 0.7) = (7 * size) \div 10 for size <= 19, and        *)
(* int(size * 0.4) = (4 * size) \div 10, cube_size // 2.5 =                 *)
(* (2 * cube_size) \div 5 for every size up to 400.                         *)
(***************************************************************************)
EXTENDS Integers, Sequences, FiniteSets

VARIABLES
    img,     \* create_geometric_icon: the canvas, img[x][y] is an RGBA tuple
    pc,      \* generate_icons: position of the driver ("direct": not running)
    dir,     \* the path icons/: "absent", "dir" or "file"
    files,   \* files under icons/: name -> "absent", "old", "new", "partial"
    i,       \* generate_icons: index into sizes of the loop
    out,     \* lines printed so far
    exc,     \* the exception raised and not caught ("none": no exception)
    size,    \* create_geometric_icon: its argument
    ipc,     \* create_geometric_icon: position
    tier,    \* create_geometric_icon: the branch of the if/elif/else taken
    drawn    \* create_geometric_icon: the ImageDraw calls made, in order

vars == <<pc, dir, files, i, out, exc, size, ipc, img, tier, drawn>>
driverVars == <<pc, dir, files, i, out, exc>>
iconVars == <<size, ipc, img, tier, drawn>>

\* ------------------------------------------------------------------ bounds

\* create_geometric_icon is explored for every size in 1..MaxSize
MaxSize == 130

\* at most this many files are already present in icons/ when the run starts
MaxOld == 1

\* ------------------------------------------------------------------ colours

Transparent == <<0, 0, 0, 0>>
red_color == <<217, 67, 67, 255>>
darker_red == <<180, 50, 50, 255>>
lighter_red == <<237, 87, 87, 255>>
edge_color == <<150, 40, 40, 255>>
white_200 == <<255, 255, 255, 200>>

\* ------------------------------------------------- ImageDraw primitives

Rectangle(x0, y0, x1, y1, fill) ==
    [kind |-> "rectangle", pts |-> <<<<x0, y0>>, <<x1, y1>>>>, fill |-> fill,
     width |-> 0, start |-> 0, end |-> 0]

Polygon(points, fill) ==
    [kind |-> "polygon", pts |-> points, fill |-> fill,
     width |-> 0, start |-> 0, end |-> 0]

Line(x0, y0, x1, y1, fill, width) ==
    [kind |-> "line", pts |-> <<<<x0, y0>>, <<x1, y1>>>>, fill |-> fill,
     width |-> width, start |-> 0, end |-> 0]

Arc(x0, y0, x1, y1, start, end, fill, width) ==
    [kind |-> "arc", pts |-> <<<<x0, y0>>, <<x1, y1>>>>, fill |-> fill,
     width |-> width, start |-> start, end |-> end]

\* twice the signed area of the triangle a, b, p
Cross(a, b, p) ==
    (b[1] - a[1]) * (p[2] - a[2]) - (b[2] - a[2]) * (p[1] - a[1])

\* a filled convex polygon covers the pixels of its closed interior
InPolygon(points, p) ==
    LET n == Len(points)
        c(k) == Cross(points[k], points[(k % n) + 1], p)
    IN  \/ \A k \in 1..n : c(k) >= 0
        \/ \A k \in 1..n : c(k) <= 0

InBox(a, b, p) ==
    /\ (IF a[1] <= b[1] THEN a[1] ELSE b[1]) <= p[1]
    /\ p[1] <= (IF a[1] <= b[1] THEN b[1] ELSE a[1])
    /\ (IF a[2] <= b[2] THEN a[2] ELSE b[2]) <= p[2]
    /\ p[2] <= (IF a[2] <= b[2] THEN b[2] ELSE a[2])

\* a stroked arc of an ellipse inscribed in the box a..b: the ring of the
\* given width inside the ellipse, on the half the angles select (angles run
\* clockwise from 3 o'clock: 0..180 is the lower half, 180..360 the upper)
InArc(a, b, start, end, width, p) ==
    LET w == b[1] - a[1]
        h == b[2] - a[2]
        dx == 2 * p[1] - (a[1] + b[1])
        dy == 2 * p[2] - (a[2] + b[2])
        wi == w - 2 * width
        hi == h - 2 * width
    IN  /\ InBox(a, b, p)
        /\ dx * dx * h * h + dy * dy * w * w <= w * w * h * h
        /\ \/ wi <= 0
           \/ hi <= 0
           \/ dx * dx * hi * hi + dy * dy * wi * wi >= wi * wi * hi * hi
        /\ IF start = 0 /\ end = 180 THEN dy >= 0
           ELSE IF start = 180 /\ end = 360 THEN dy <= 0
           ELSE TRUE

\* whether the primitive paints pixel p
Covers(prim, p) ==
    IF prim.kind = "rectangle" THEN
        /\ prim.pts[1][1] <= p[1] /\ p[1] <= prim.pts[2][1]
        /\ prim.pts[1][2] <= p[2] /\ p[2] <= prim.pts[2][2]
    ELSE IF prim.kind = "polygon" THEN InPolygon(prim.pts, p)
    ELSE IF prim.kind = "line" THEN
        /\ InBox(prim.pts[1], prim.pts[2], p)
        /\ Cross(prim.pts[1], prim.pts[2], p) = 0
    ELSE InArc(prim.pts[1], prim.pts[2], prim.start, prim.end, prim.width, p)

\* rectangle and arc raise ValueError on a box with x1 < x0 or y1 < y0
Accepted(prim) ==
    prim.kind \in {"rectangle", "arc"} =>
        /\ prim.pts[1][1] <= prim.pts[2][1]
        /\ prim.pts[1][2] <= prim.pts[2][2]

\* a rasteriser that composites the fill over the pixel instead of storing it
PutPixel_Blend(old, fill) ==
    LET a == fill[4] + (old[4] * (255 - fill[4])) \div 255
        mix(c) == IF a = 0 THEN 0
                  ELSE (fill[c] * fill[4]
                        + (old[c] * old[4] * (255 - fill[4])) \div 255) \div a
    IN  <<mix(1), mix(2), mix(3), a>>

\* drawing on an RGBA image stores the fill colour, alpha included
PutPixel(old, fill) == fill

Paint(canvas, prim) ==
    [x \in DOMAIN canvas |-> [y \in DOMAIN canvas[x] |->
        IF Covers(prim, <<x, y>>) THEN PutPixel(canvas[x][y], prim.fill)
        ELSE canvas[x][y]]]

\* the draw calls of one block, in order; the first rejected call raises
RECURSIVE Render(_, _)
Render(st, prims) ==
    IF prims = <<>> \/ ~st.ok THEN st
    ELSE IF ~Accepted(Head(prims)) THEN [st EXCEPT !.ok = FALSE]
    ELSE Render([img |-> Paint(st.img, Head(prims)),
                 drawn |-> Append(st.drawn, Head(prims)),
                 ok |-> TRUE],
                Tail(prims))

\* --------------------------------------------------- create_geometric_icon

\* the canvas created opaque white
Background_Opaque == <<255, 255, 255, 255>>

Background == Transparent

\* Image.new('RGBA', (size, size), (0, 0, 0, 0)): pixel (x, y) is canvas[x][y]
NewCanvas(s) == [x \in 0..(s - 1) |-> [y \in 0..(s - 1) |-> Background]]

center(s) == s \div 2

\* the thresholds compared with < instead of <=
Tier_Exclusive(s) ==
    IF s < 19 THEN "simple" ELSE IF s < 48 THEN "medium" ELSE "detailed"

Tier(s) ==
    IF s <= 19 THEN "simple" ELSE IF s <= 48 THEN "medium" ELSE "detailed"

\* the bars drawn at every simple-tier size
HasBars_Always(s) == TRUE

HasBars(s) == s >= 16

\* the arcs only above 128
HasArcs_Above(s) == s > 128

HasArcs(s) == s >= 128

\* simple tier
box_size(s) == (7 * s) \div 10

SimpleGeom(s) ==
    [x1 |-> center(s) - box_size(s) \div 2,
     y1 |-> center(s) - box_size(s) \div 2,
     x2 |-> center(s) + box_size(s) \div 2,
     y2 |-> center(s) + box_size(s) \div 2]

SquarePrims(s) ==
    LET g == SimpleGeom(s)
    IN  <<Rectangle(g.x1, g.y1, g.x2, g.y2, red_color)>>

BarPrims(s) ==
    LET g == SimpleGeom(s)
    IN  <<Rectangle(g.x1 + 2, g.y1 + 2, g.x2 - 2, g.y1 + 3, white_200),
          Rectangle(g.x1 + 2, center(s) - 1, g.x2 - 2, center(s), white_200),
          Rectangle(g.x1 + 2, g.y2 - 3, g.x2 - 2, g.y2 - 2, white_200)>>

\* medium tier
MediumGeom(s) ==
    LET cube_size == s \div 2
        offset == cube_size \div 3
    IN  [cube_size |-> cube_size,
         offset |-> offset,
         x1 |-> center(s) - cube_size \div 2,
         y1 |-> center(s) - cube_size \div 2 + offset \div 2,
         x2 |-> center(s) + cube_size \div 2,
         y2 |-> center(s) + cube_size \div 2 + offset \div 2]

\* the right face's lower far vertex left at the height of the front face
MediumPrims_Skewed(s) ==
    LET g == MediumGeom(s)
        o == g.offset
    IN  <<Rectangle(g.x1, g.y1, g.x2, g.y2, red_color),
          Polygon(<<<<g.x1, g.y1>>, <<g.x1 + o, g.y1 - o>>,
                    <<g.x2 + o, g.y1 - o>>, <<g.x2, g.y1>>>>, darker_red),
          Polygon(<<<<g.x2, g.y1>>, <<g.x2 + o, g.y1 - o>>,
                    <<g.x2 + o, g.y2>>, <<g.x2, g.y2>>>>, darker_red)>>

MediumPrims(s) ==
    LET g == MediumGeom(s)
        o == g.offset
    IN  <<Rectangle(g.x1, g.y1, g.x2, g.y2, red_color),
          Polygon(<<<<g.x1, g.y1>>, <<g.x1 + o, g.y1 - o>>,
                    <<g.x2 + o, g.y1 - o>>, <<g.x2, g.y1>>>>, darker_red),
          Polygon(<<<<g.x2, g.y1>>, <<g.x2 + o, g.y1 - o>>,
                    <<g.x2 + o, g.y2 - o>>, <<g.x2, g.y2>>>>, darker_red)>>

\* detailed tier
DetailedGeom(s) ==
    LET cube_size == (4 * s) \div 10
        offset == (2 * cube_size) \div 5
    IN  [cube_size |-> cube_size,
         offset |-> offset,
         x1 |-> center(s) - cube_size \div 2,
         y1 |-> center(s) - cube_size \div 3,
         x2 |-> center(s) + cube_size \div 2,
         y2 |-> center(s) + cube_size \div 3]

FacePrims(s) ==
    LET g == DetailedGeom(s)
        o == g.offset
        h == g.offset \div 2
    IN  <<Polygon(<<<<g.x1, g.y1 + h>>, <<g.x1, g.y2 + h>>,
                    <<g.x2, g.y2 + h>>, <<g.x2, g.y1 + h>>>>, red_color),
          Polygon(<<<<g.x1, g.y1 + h>>, <<g.x1 + o, g.y1 - h>>,
                    <<g.x2 + o, g.y1 - h>>, <<g.x2, g.y1 + h>>>>, lighter_red),
          Polygon(<<<<g.x2, g.y1 + h>>, <<g.x2 + o, g.y1 - h>>,
                    <<g.x2 + o, g.y2 - h>>, <<g.x2, g.y2 + h>>>>, darker_red)>>

EdgePrims(s) ==
    LET g == DetailedGeom(s)
        h == g.offset \div 2
    IN  <<Line(g.x1, g.y1 + h, g.x2, g.y1 + h, edge_color, 1),
          Line(g.x2, g.y1 + h, g.x2, g.y2 + h, edge_color, 1),
          Line(g.x1, g.y1 + h, g.x1, g.y2 + h, edge_color, 1)>>

ArcPrims(s) ==
    LET g == DetailedGeom(s)
        s_size == g.cube_size \div 3
        s_x == center(s)
        s_y == center(s) + g.offset \div 4
    IN  <<Arc(s_x - s_size \div 2, s_y - s_size \div 2,
              s_x + s_size \div 2, s_y, 0, 180, white_200, 3),
          Arc(s_x - s_size \div 2, s_y,
              s_x + s_size \div 2, s_y + s_size \div 2, 180, 360, white_200, 3)>>

\* one block of draw calls: on success control moves to next, a rejected
\* call raises out of create_geometric_icon
DrawBlock(prims, next) ==
    \E ps \in {prims} :
        \E st \in {Render([img |-> img, drawn |-> drawn, ok |-> TRUE], ps)} :
            /\ img' = st.img
            /\ drawn' = st.drawn
            /\ ipc' = IF st.ok THEN next ELSE "error"

NewImage ==
    /\ ipc = "new"
    /\ img' = NewCanvas(size)
    /\ drawn' = <<>>
    /\ tier' = Tier(size)
    /\ ipc' = Tier(size)
    /\ UNCHANGED <<driverVars, size>>

DrawSquare ==
    /\ ipc = "simple"
    /\ DrawBlock(SquarePrims(size), IF HasBars(size) THEN "bars" ELSE "done")
    /\ UNCHANGED <<driverVars, size, tier>>

DrawBars ==
    /\ ipc = "bars"
    /\ DrawBlock(BarPrims(size), "done")
    /\ UNCHANGED <<driverVars, size, tier>>

DrawMediumCube ==
    /\ ipc = "medium"
    /\ DrawBlock(MediumPrims(size), "done")
    /\ UNCHANGED <<driverVars, size, tier>>

DrawFaces ==
    /\ ipc = "detailed"
    /\ DrawBlock(FacePrims(size), "edges")
    /\ UNCHANGED <<driverVars, size, tier>>

DrawEdges ==
    /\ ipc = "edges"
    /\ DrawBlock(EdgePrims(size), IF HasArcs(size) THEN "arcs" ELSE "done")
    /\ UNCHANGED <<driverVars, size, tier>>

DrawArcs ==
    /\ ipc = "arcs"
    /\ DrawBlock(ArcPrims(size), "done")
    /\ UNCHANGED <<driverVars, size, tier>>

IconNext ==
    \/ NewImage
    \/ DrawSquare
    \/ DrawBars
    \/ DrawMediumCube
    \/ DrawFaces
    \/ DrawEdges
    \/ DrawArcs

\* ----------------------------------------------------------- generate_icons

\* the list with two sizes exchanged
sizes_Swapped == <<16, 19, 18, 38, 48, 128>>

sizes == <<16, 18, 19, 38, 48, 128>>

SvgName == "icons/secure-share-icon-transparent.svg"

\* f'icons/{size}.png'
PngName(s) ==
    CASE s = 16 -> "icons/16.png"
      [] s = 18 -> "icons/18.png"
      [] s = 19 -> "icons/19.png"
      [] s = 38 -> "icons/38.png"
      [] s = 48 -> "icons/48.png"
      [] s = 128 -> "icons/128.png"

Names == {PngName(sizes[k]) : k \in 1..Len(sizes)} \cup {SvgName}

\* create_geometric_icon called on its own, with any size up to the bound
InitIcon ==
    /\ pc = "direct"
    /\ dir = "absent"
    /\ files = [n \in Names |-> "absent"]
    /\ i = 0
    /\ out = <<>>
    /\ exc = "none"
    /\ size \in 1..MaxSize
    /\ ipc = "new"
    /\ img = <<>>
    /\ tier = "none"
    /\ drawn = <<>>

SpecIcon == InitIcon /\ [][IconNext]_vars

\* the error swallowed and the statement that raised it run again
Unwind_Retry(at) == at

\* generate_icons has no try/except: a raised error leaves the function and
\* ends the process
Unwind(at) == "exit"

\* os.path.exists('icons') / os.makedirs('icons'), then the first print
EnsureDir ==
    /\ pc = "start"
    /\ \/ /\ dir # "absent"
          /\ UNCHANGED <<dir, exc>>
          /\ out' = Append(out, "Restoring SecureShare icons")
          /\ i' = 1
          /\ pc' = "loop"
       \/ /\ dir = "absent"
          /\ dir' = "dir"
          /\ UNCHANGED exc
          /\ out' = Append(out, "Restoring SecureShare icons")
          /\ i' = 1
          /\ pc' = "loop"
       \/ /\ dir = "absent"
          /\ exc' = "OSError"
          /\ pc' = Unwind(pc)
          /\ UNCHANGED <<dir, out, i>>
    /\ UNCHANGED <<files, iconVars>>

\* for size in sizes: img = create_geometric_icon(size)
CallCreate ==
    /\ pc = "loop"
    /\ i <= Len(sizes)
    /\ size' = sizes[i]
    /\ ipc' = "new"
    /\ pc' = "create"
    /\ UNCHANGED <<dir, files, i, out, exc, img, tier, drawn>>

\* img.save(output_path, 'PNG', optimize=True) and the print after it
SavePng ==
    /\ pc = "create"
    /\ ipc = "done"
    /\ \/ /\ dir = "dir"
          /\ files' = [files EXCEPT ![PngName(size)] = "new"]
          /\ out' = Append(out, PngName(size))
          /\ i' = i + 1
          /\ pc' = "loop"
          /\ UNCHANGED exc
       \/ /\ exc' = "OSError"
          /\ pc' = Unwind(pc)
          /\ \E left \in (IF dir = "dir" THEN {files[PngName(size)], "partial"}
                           ELSE {files[PngName(size)]}) :
                files' = [files EXCEPT ![PngName(size)] = left]
          /\ UNCHANGED <<out, i>>
    /\ UNCHANGED <<dir, iconVars>>

\* with open('icons/secure-share-icon-transparent.svg', 'w') as f:
\* f.write(svg_content), and the print after it
WriteSvg ==
    /\ pc = "loop"
    /\ i > Len(sizes)
    /\ \/ /\ dir = "dir"
          /\ files' = [files EXCEPT ![SvgName] = "new"]
          /\ out' = Append(out, SvgName)
          /\ pc' = "summary"
          /\ UNCHANGED exc
       \/ /\ exc' = "OSError"
          /\ pc' = Unwind(pc)
          /\ \E left \in (IF dir = "dir" THEN {files[SvgName], "partial"}
                           ELSE {files[SvgName]}) :
                files' = [files EXCEPT ![SvgName] = left]
          /\ UNCHANGED out
    /\ UNCHANGED <<dir, i, iconVars>>

PrintSummary ==
    /\ pc = "summary"
    /\ out' = Append(out, "All icons restored successfully")
    /\ pc' = "done"
    /\ UNCHANGED <<dir, files, i, exc, iconVars>>

Init ==
    /\ pc = "start"
    /\ dir \in {"absent", "dir", "file"}
    /\ files \in [Names -> {"absent", "old"}]
    /\ dir # "dir" => \A n \in Names : files[n] = "absent"
    /\ Cardinality({n \in Names : files[n] = "old"}) <= MaxOld
    /\ i = 0
    /\ out = <<>>
    /\ exc = "none"
    /\ size = 0
    /\ ipc = "idle"
    /\ img = <<>>
    /\ tier = "none"
    /\ drawn = <<>>

Next ==
    \/ EnsureDir
    \/ CallCreate
    \/ NewImage
    \/ DrawSquare
    \/ DrawBars
    \/ DrawMediumCube
    \/ DrawFaces
    \/ DrawEdges
    \/ DrawArcs
    \/ SavePng
    \/ WriteSvg
    \/ PrintSummary

Spec == Init /\ [][Next]_vars

\* ------------------------------------------------------------ properties

Range(s) == {s[k] : k \in 1..Len(s)}

Alpha(colour) == colour[4]

\* create_geometric_icon has returned its canvas
Returned == ipc = "done"

Coords == 0..(size - 1)

\* pixel <<x, y>> lies under one of the primitives drawn
Touched(x, y) == \E k \in 1..Len(drawn) : Covers(drawn[k], <<x, y>>)

\* pixel <<x, y>> lies under a primitive of the "S" glyph (translucent white)
UnderGlyph(x, y) ==
    \E k \in 1..Len(drawn) :
        drawn[k].fill = white_200 /\ Covers(drawn[k], <<x, y>>)

Count(kinds) == Cardinality({k \in 1..Len(drawn) : drawn[k].kind \in kinds})

Bars == {k \in 1..Len(drawn) :
            drawn[k].kind = "rectangle" /\ drawn[k].fill = white_200}

Arcs == {k \in 1..Len(drawn) : drawn[k].kind = "arc"}

Glyph == {k \in 1..Len(drawn) : drawn[k].fill = white_200}

\* C1: for each of the sizes 16, 18, 19, 38, 48, 128 the returned canvas is
\* size x size pixels, every pixel no drawn primitive covers has alpha 0,
\* and the four corner pixels have alpha 0.
C1_TransparentBackground ==
    (Returned /\ size \in Range(sizes)) =>
        /\ DOMAIN img = Coords
        /\ \A x \in Coords : DOMAIN img[x] = Coords
        /\ \A x \in Coords : \A y \in Coords :
                ~Touched(x, y) => Alpha(img[x][y]) = 0
        /\ \A x \in {0, size - 1} : \A y \in {0, size - 1} :
                Alpha(img[x][y]) = 0

C1_Witness ==
    /\ Returned
    /\ size = 128
    /\ Alpha(img[0][127]) = 0
    /\ ~Touched(0, 127)
    /\ \E x \in Coords : \E y \in Coords : Alpha(img[x][y]) # 0

\* C2: the tier is a total function of the size with the thresholds 19 and
\* 48 inclusive to the lower tier, and it shows in the primitives drawn:
\* simple draws at most 4 primitives, medium draws exactly 3 filled regions
\* and no line, and only the detailed tier draws the three edge lines.
C2_TierSelection ==
    Returned =>
        /\ tier \in {"simple", "medium", "detailed"}
        /\ tier = "simple" <=> size <= 19
        /\ tier = "medium" <=> (20 <= size /\ size <= 48)
        /\ tier = "detailed" <=> size > 48
        /\ tier = "simple" => Len(drawn) <= 4
        /\ tier = "medium" =>
              /\ Count({"rectangle", "polygon"}) = 3
              /\ Len(drawn) = 3
        /\ Count({"line"}) = (IF tier = "detailed" THEN 3 ELSE 0)

C2_Witness ==
    /\ Returned
    /\ size = 20
    /\ tier = "medium"
    /\ Len(drawn) = 3

\* C3 as amended: in the returned canvas every pixel has alpha 0, 200 or 255;
\* alpha is 200 exactly on the pixels of the "S" glyph (the bars at 16, 18,
\* 19, the arcs at 128), 255 on the other drawn pixels and 0 elsewhere, so
\* the canvases of 38 and 48 hold only alpha 0 and 255.
C3_AlphaLevels ==
    (Returned /\ size \in Range(sizes)) =>
        /\ \A x \in Coords : \A y \in Coords :
              /\ Alpha(img[x][y]) \in {0, 200, 255}
              /\ Alpha(img[x][y]) = 200 <=> UnderGlyph(x, y)
              /\ Alpha(img[x][y]) = 255 <=>
                    (Touched(x, y) /\ ~UnderGlyph(x, y))
        /\ size \in {38, 48} =>
              \A x \in Coords : \A y \in Coords : Alpha(img[x][y]) # 200

C3_Witness ==
    /\ Returned
    /\ size = 16
    /\ \E x \in Coords : \E y \in Coords : Alpha(img[x][y]) = 200
    /\ \E x \in Coords : \E y \in Coords : Alpha(img[x][y]) = 255

\* C3 as stated: in the returned canvas of each of the six sizes every pixel
\* has alpha 0 or alpha 255.
C3_OnlyOpaqueOrTransparent ==
    (Returned /\ size \in Range(sizes)) =>
        \A x \in Coords : \A y \in Coords : Alpha(img[x][y]) \in {0, 255}

\* the size of the k-th raster file
ExpectedSize(k) ==
    CASE k = 1 -> 16 [] k = 2 -> 18 [] k = 3 -> 19
      [] k = 4 -> 38 [] k = 5 -> 48 [] k = 6 -> 128

\* the lines a complete run prints, in order
ExpectedOut ==
    <<"Restoring SecureShare icons", "icons/16.png", "icons/18.png",
      "icons/19.png", "icons/38.png", "icons/48.png", "icons/128.png",
      "icons/secure-share-icon-transparent.svg",
      "All icons restored successfully">>

Written(n) == files[n] = "new"

\* C4: icons/ is a directory before any file is written; the raster files
\* are written one per size in the order 16, 18, 19, 38, 48, 128, each while
\* its own canvas is the one just generated and before the next size is
\* generated; the SVG is written after all six, the summary after the SVG.
C4_WriteOrder ==
    /\ (\E n \in Names : Written(n)) => dir = "dir"
    /\ Len(out) <= Len(ExpectedOut)
    /\ \A k \in 1..Len(out) : out[k] = ExpectedOut[k]
    /\ \A n \in Names : Written(n) <=> n \in Range(out)
    /\ pc = "create" =>
          /\ i \in 1..6
          /\ size = ExpectedSize(i)
          /\ \A k \in 1..6 : Written(ExpectedOut[k + 1]) <=> k < i
          /\ ~Written(SvgName)
    /\ Written(SvgName) => \A k \in 1..6 : Written(ExpectedOut[k + 1])
    /\ ExpectedOut[9] \in Range(out) => Written(SvgName)

C4_Witness ==
    /\ pc = "done"
    /\ out = ExpectedOut
    /\ \A n \in Names : Written(n)

\* C5: a failed makedirs or file write ends the run there: nothing changes
\* after the error (no later file, no retry, no summary), the files not yet
\* reached are not written, and a file once written stays written.
C5_FailureIsFatal ==
    /\ [](exc # "none" =>
            /\ ExpectedOut[9] \notin Range(out)
            /\ ~Written(SvgName)
            /\ \A k \in 1..6 : k >= i => ~Written(ExpectedOut[k + 1])
            /\ \A k \in 1..6 : (1 <= i /\ k < i) => Written(ExpectedOut[k + 1]))
    /\ [][exc # "none" => UNCHANGED vars]_vars
    /\ [][\A n \in Names : Written(n) => files'[n] = "new"]_vars

C5_Witness ==
    /\ exc = "OSError"
    /\ i = 3
    /\ Written("icons/16.png")
    /\ Written("icons/18.png")
    /\ files["icons/19.png"] = "partial"
    /\ ~Written("icons/38.png")

\* C6: the three bars are drawn exactly when 16 <= size <= 19, the two arcs
\* exactly when size >= 128, and no glyph primitive at any other size.
C6_GlyphBySize ==
    Returned =>
        /\ Cardinality(Bars) = (IF 16 <= size /\ size <= 19 THEN 3 ELSE 0)
        /\ Cardinality(Arcs) = (IF size >= 128 THEN 2 ELSE 0)
        /\ (size < 16 \/ (20 <= size /\ size <= 127)) => Glyph = {}
        /\ Glyph = Bars \cup Arcs

C6_Witness ==
    /\ Returned
    /\ size = 128
    /\ Cardinality(Arcs) = 2
    /\ Bars = {}

PaintedCols == {x \in Coords : \E y \in Coords : Alpha(img[x][y]) # 0}

PaintedRows == {y \in Coords : \E x \in Coords : Alpha(img[x][y]) # 0}

\* C7: for every simple-tier size the painted region spans at most
\* 0.7 x size pixel columns and at most 0.7 x size pixel rows.
C7_SquareWithin70Percent ==
    (Returned /\ tier = "simple") =>
        /\ 10 * Cardinality(PaintedCols) <= 7 * size
        /\ 10 * Cardinality(PaintedRows) <= 7 * size

Vertices(prim) == Range(prim.pts)

\* C8: create_geometric_icon never raises: every rectangle and arc box it
\* passes on has left <= right and top <= bottom, and every vertex of every
\* primitive has both coordinates in 0..size-1.
C8_TotalAndInsideCanvas ==
    /\ ipc # "error"
    /\ \A k \in 1..Len(drawn) :
          /\ drawn[k].kind \in {"rectangle", "arc"} =>
                /\ drawn[k].pts[1][1] <= drawn[k].pts[2][1]
                /\ drawn[k].pts[1][2] <= drawn[k].pts[2][2]
          /\ \A v \in Vertices(drawn[k]) : v[1] \in Coords /\ v[2] \in Coords

C8_Witness ==
    /\ Returned
    /\ size = 128
    /\ Len(drawn) = 8
    /\ Count({"arc"}) = 2

\* the corners of the front face, the first primitive of both cube tiers
FrontBox ==
    LET vs == Vertices(drawn[1])
    IN  [x1 |-> CHOOSE a \in {v[1] : v \in vs} : \A v \in vs : a <= v[1],
         y1 |-> CHOOSE a \in {v[2] : v \in vs} : \A v \in vs : a <= v[2],
         x2 |-> CHOOSE a \in {v[1] : v \in vs} : \A v \in vs : a >= v[1],
         y2 |-> CHOOSE a \in {v[2] : v \in vs} : \A v \in vs : a >= v[2]]

\* the cube's faces: the front face is the axis-aligned rectangle FrontBox,
\* the top face is its top edge and that edge moved by <<dx, dy>>, the right
\* face is its right edge and that edge moved by <<dx, dy>>
CubeFaces(dx, dy) ==
    LET f == FrontBox
    IN  /\ Vertices(drawn[1]) \subseteq
              {<<f.x1, f.y1>>, <<f.x2, f.y1>>, <<f.x2, f.y2>>, <<f.x1, f.y2>>}
        /\ {<<f.x1, f.y1>>, <<f.x2, f.y2>>} \subseteq Vertices(drawn[1])
        /\ drawn[2].kind = "polygon"
        /\ Vertices(drawn[2]) =
              {<<f.x1, f.y1>>, <<f.x2, f.y1>>,
               <<f.x1 + dx, f.y1 + dy>>, <<f.x2 + dx, f.y1 + dy>>}
        /\ drawn[3].kind = "polygon"
        /\ Vertices(drawn[3]) =
              {<<f.x2, f.y1>>, <<f.x2, f.y2>>,
               <<f.x2 + dx, f.y1 + dy>>, <<f.x2 + dx, f.y2 + dy>>}

\* the depth offset of the tier: side / 3 or side / 2.5, rounded down
DepthOffset ==
    IF tier = "medium" THEN MediumGeom(size).offset
    ELSE DetailedGeom(size).offset

\* C9 as stated: in both cube tiers the top and the right face are the front
\* face's top and right edge and their translates by (offset, -offset).
C9_FacesMovedByOffset ==
    (Returned /\ tier \in {"medium", "detailed"}) =>
        CubeFaces(DepthOffset, -DepthOffset)

\* C9 as amended: as stated in the medium tier; in the detailed tier the
\* translation is (offset, -2 * floor(offset / 2)), which is (offset,
\* -offset) when the offset is even (as at size 128) and one pixel less
\* high when it is odd (as at size 49).
C9_FacesMovedByRoundedOffset ==
    (Returned /\ tier \in {"medium", "detailed"}) =>
        /\ DepthOffset = (IF tier = "medium" THEN (size \div 2) \div 3
                          ELSE (2 * ((4 * size) \div 10)) \div 5)
        /\ IF tier = "medium" THEN CubeFaces(DepthOffset, -DepthOffset)
           ELSE CubeFaces(DepthOffset, -(2 * (DepthOffset \div 2)))

C9_Witness ==
    /\ Returned
    /\ size = 49
    /\ tier = "detailed"
    /\ DepthOffset = 7
    /\ CubeFaces(7, -6)

WhiteRows == {y \in Coords : \E x \in Coords : img[x][y] = white_200}

\* C10: for 16 <= size <= 19 the three bars lie inside the square, on
\* disjoint row ranges from top to bottom, with at least one row of the
\* square's colour between consecutive bars: three separate stripes.
C10_ThreeSeparateStripes ==
    (Returned /\ 16 <= size /\ size <= 19) =>
        /\ Len(drawn) = 4
        /\ \A k \in 2..4 :
              /\ drawn[1].pts[1][1] <= drawn[k].pts[1][1]
              /\ drawn[1].pts[1][2] <= drawn[k].pts[1][2]
              /\ drawn[k].pts[2][1] <= drawn[1].pts[2][1]
              /\ drawn[k].pts[2][2] <= drawn[1].pts[2][2]
        /\ \A k \in 2..3 :
              /\ drawn[k].pts[2][2] < drawn[k + 1].pts[1][2]
              /\ \E y \in Coords :
                    /\ drawn[k].pts[2][2] < y
                    /\ y < drawn[k + 1].pts[1][2]
                    /\ \A x \in Coords :
                          (drawn[k].pts[1][1] <= x /\ x <= drawn[k].pts[2][1])
                              => img[x][y] = red_color
        /\ Cardinality({y \in WhiteRows : (y - 1) \notin WhiteRows}) = 3

====
